---- MODULE Spec2Model ----
(***************************************************************************)
(* A model of pycoatl's synthetic-DIC post-processing                      *)
(* (src/src/pycoatl/spatialdata/spatialdatawrapper.py):                    *)
(*   interpolate_spatialdata_grid, get_points_neighbours and               *)
(*   window_differentation, acting on SpatialData containers.              *)
(*                                                                         *)
(* Numbers are exact rationals [k |-> "num", n, d]; not-a-number, minus    *)
(* infinity and ln(sqrt(n/d)) are values of their own kind.  Floating      *)
(* point rounding is not modelled.                                         *)
(***************************************************************************)
EXTENDS Integers, Sequences, FiniteSets, TLC

\* ------------------------------------------------------------------ bounds

\* Largest number of mesh snapshots in the time series.
MaxSnap == 2
\* Number of points along one side of the source mesh.
MaxGrid == 5
\* Largest grid spacing handed to interpolate_spatialdata_grid.
MaxSpacing == 3
\* Number of calls made on the containers in one behaviour.
MaxCalls == 2

\* ------------------------------------------------------------------ values

Abs(n) == IF n < 0 THEN -n ELSE n

RECURSIVE Gcd(_, _)
Gcd(a, b) == IF b = 0 THEN a ELSE Gcd(b, a % b)

\* The rational n/d in lowest terms with a positive denominator (d # 0).
Rat(n, d) ==
    IF d = 1 THEN [k |-> "num", n |-> n, d |-> 1]
    ELSE CHOOSE r \in
           {[k |-> "num", n |-> (IF d < 0 THEN -n ELSE n) \div g, d |-> Abs(d) \div g] :
            g \in {Gcd(Abs(n), Abs(d))}} : TRUE

Num(n) == [k |-> "num", n |-> n, d |-> 1]

\* np.nan
NaN == [k |-> "nan", n |-> 0, d |-> 1]
\* -inf, the value of np.log(0.0)
NegInf == [k |-> "neginf", n |-> 0, d |-> 1]
\* A finite real whose exact value the model does not track.
Real == [k |-> "real", n |-> 0, d |-> 1]

IsNum(v) == v.k = "num"
IsNaN(v) == v.k = "nan"

\* IEEE arithmetic on the values that reach it: a NaN operand gives NaN.
VAdd(a, b) ==
    IF IsNum(a) /\ IsNum(b) THEN Rat(a.n * b.d + b.n * a.d, a.d * b.d)
    ELSE IF IsNaN(a) \/ IsNaN(b) THEN NaN ELSE Real

VSub(a, b) ==
    IF IsNum(a) /\ IsNum(b) THEN Rat(a.n * b.d - b.n * a.d, a.d * b.d)
    ELSE IF IsNaN(a) \/ IsNaN(b) THEN NaN ELSE Real

VMul(a, b) ==
    IF IsNum(a) /\ IsNum(b) THEN Rat(a.n * b.n, a.d * b.d)
    ELSE IF IsNaN(a) \/ IsNaN(b) THEN NaN ELSE Real

\* a / b; a zero divisor is the rank-deficient fit, whose result is garbage.
VDiv(a, b) ==
    IF IsNum(a) /\ IsNum(b)
    THEN IF b.n = 0 THEN NaN ELSE Rat(a.n * b.d, a.d * b.n)
    ELSE IF IsNaN(a) \/ IsNaN(b) THEN NaN ELSE Real

VLe(a, b) == a.n * b.d <= b.n * a.d
VLt(a, b) == a.n * b.d < b.n * a.d

\* np.log(np.sqrt(a))
LogSqrt(a) ==
    IF ~IsNum(a) THEN (IF IsNaN(a) THEN NaN ELSE Real)
    ELSE IF a.n < 0 THEN NaN
    ELSE IF a.n = 0 THEN NegInf
    ELSE IF a.n = a.d THEN Num(0)
    ELSE [k |-> "lnsqrt", n |-> a.n, d |-> a.d]

RECURSIVE VSumTo(_, _)
\* s[1] + ... + s[n]
VSumTo(s, n) == IF n = 0 THEN Num(0) ELSE VAdd(s[n], VSumTo(s, n - 1))

\* np.sum and np.mean of a sequence
VSum(s) == VSumTo(s, Len(s))
VMean(s) == VDiv(VSumTo(s, Len(s)), Num(Len(s)))

\* ------------------------------------------------------------------ dicts

\* d[key] = value of a Python dict: the key is added or overwritten.
SetItem(d, key, value) ==
    [x \in DOMAIN d \cup {key} |-> IF x = key THEN value ELSE d[x]]

\* The function f with every value computed once (TLC would otherwise
\* compute f[x] anew at each use).  For the same reason a value that is
\* used several times is bound as the one element of a set,
\*     CHOOSE r \in {Body(v) : v \in {Value}} : TRUE,
\* which is Body(Value).
Array(f) == f @@ <<>>

\* ------------------------------------------------------------------ meshes

\* A mesh snapshot (a pyvista dataset): points[p] = <<x, y>> for the point
\* ids 0..n-1, cells (each the set of its point ids) and the named point
\* fields, fields[name][p].
number_of_points(mesh) == Cardinality(DOMAIN mesh.points)

PointIds(mesh) == DOMAIN mesh.points

\* Lower-left corner of the source mesh.
MeshOrigin == <<1, 2>>

\* Displacement of snapshot s (1-based) at (x, y):
\* disp_x = s*(x + x*y), disp_y = s*(1 + 2*y).
DispX(s, x, y) == s * (x + x * y)
DispY(s, x, y) == s * (1 + 2 * y)

\* The finite-element mesh of one time step: an N x N lattice of unit quads,
\* with its last corner cell (and corner point) cut away when notch.
\* drop names the displacement field this snapshot lacks ("" for none).
SourceMesh(N, notch, s, drop) ==
    LET n    == IF notch THEN N * N - 1 ELSE N * N
        id(i, j) == i + N * j
        X(p) == MeshOrigin[1] + (p % N)
        Y(p) == MeshOrigin[2] + (p \div N)
        all  == [name \in {"ObjectId", "disp_x", "disp_y"} |->
                   [p \in 0 .. n - 1 |->
                      CASE name = "ObjectId" -> Num(1)
                        [] name = "disp_x"   -> Num(DispX(s, X(p), Y(p)))
                        [] name = "disp_y"   -> Num(DispY(s, X(p), Y(p)))]]
    IN  [points |-> [p \in 0 .. n - 1 |-> <<Num(X(p)), Num(Y(p))>>],
         cells  |-> {{id(i, j), id(i + 1, j), id(i, j + 1), id(i + 1, j + 1)} :
                       <<i, j>> \in {c \in (0 .. N - 2) \X (0 .. N - 2) :
                                       ~(notch /\ c = <<N - 2, N - 2>>)}},
         fields |-> [name \in {"ObjectId", "disp_x", "disp_y"} \ {drop} |->
                       all[name]]]

Min(a, b) == IF a < b THEN a ELSE b
Max(a, b) == IF a < b THEN b ELSE a

\* pv.StructuredGrid(x, y, z) of np.meshgrid(xr, yr, zr): the point of
\* xr[i], yr[j] has id j + ny*i (the arrays are flattened first axis
\* fastest), and the cells join lattice-adjacent points.
StructuredGrid(xr, yr) ==
    LET nx == Len(xr)
        ny == Len(yr)
        id(i, j) == j + ny * i
    IN  [points |-> Array([p \in 0 .. nx * ny - 1 |->
                       <<xr[(p \div ny) + 1], yr[(p % ny) + 1]>>]),
         cells  |-> {{id(i, j), id(Min(i + 1, nx - 1), j),
                      id(i, Min(j + 1, ny - 1)),
                      id(Min(i + 1, nx - 1), Min(j + 1, ny - 1))} :
                       <<i, j>> \in (0 .. Max(nx - 2, 0)) \X (0 .. Max(ny - 2, 0))},
         fields |-> <<>>]

\* ------------------------------------------------------------------ neighbours

\* list(a_set) of point ids, in ascending order.
SetToList(S) ==
    [i \in 1 .. Cardinality(S) |->
       CHOOSE x \in S : Cardinality({y \in S : y < x}) = i - 1]

ListToSet(l) == {l[i] : i \in DOMAIN l}

\* mesh.point_neighbors(ind): the other points of the cells ind belongs to.
point_neighbors(mesh, ind) == (UNION {c \in mesh.cells : ind \in c}) \ {ind}

RECURSIVE LevelsFrom(_, _, _, _)
\* The levels after the first: each is the points next to the last level
\* that no earlier level holds.
LevelsFrom(mesh, neighbors, all_visited, remaining) ==
    IF remaining <= 0 THEN <<>>
    ELSE CHOOSE r \in
           {<<SetToList(new_visited)>>
              \o LevelsFrom(mesh, new_visited, all_visited \cup new_visited,
                            remaining - 1) :
            new_visited \in {(UNION {point_neighbors(mesh, n) : n \in neighbors})
                               \ all_visited}} : TRUE

\* mesh.point_neighbors_levels(ind, n_levels): one list per level.
point_neighbors_levels(mesh, ind, n_levels) ==
    CHOOSE r \in
      {<<SetToList(neighbors)>>
         \o LevelsFrom(mesh, neighbors, neighbors \cup {ind}, n_levels - 1) :
       neighbors \in {point_neighbors(mesh, ind)}} : TRUE

RECURSIVE Concat(_)
Concat(ls) == IF ls = <<>> THEN <<>> ELSE Head(ls) \o Concat(Tail(ls))

\* A variant of Levels that divides 1, not window_size - 1, by 2.
LevelsPrecedence(window_size) == window_size - 1

\* levels = int((window_size - 1) / 2)
Levels(window_size) == (window_size - 1) \div 2

\* get_points_neighbours(mesh, window_size): for every point, the point
\* itself followed by its neighbours level by level.
get_points_neighbours(mesh, window_size) ==
    Array([point \in 0 .. number_of_points(mesh) - 1 |->
       <<point>> \o Concat(point_neighbors_levels(mesh, point, Levels(window_size)))])

\* ------------------------------------------------------------------ gradient

\* np.linalg.lstsq(L_Q4_n(xdata), ydata): the coefficients <<a, b, c, d>> of
\* the least-squares fit of f(x, y) = a + b*x + c*y + d*x*y.  The basis
\* 1, x - mx, y - my, (x - mx)*(y - my) is orthogonal over a window whose
\* points form a full lattice block, the only windows that reach the fit
\* (a window of window_size^2 points), so each coefficient is a quotient of
\* two sums; a rank-deficient window divides by zero and yields NaN.
LstsqCoefficients(mean, bc, cc, d, mx, my) ==
    <<VAdd(VSub(VSub(mean, VMul(bc, mx)), VMul(cc, my)), VMul(d, VMul(mx, my))),
      VSub(bc, VMul(d, my)),
      VSub(cc, VMul(d, mx)),
      d>>

LstsqQuotients(xi, eta, xe, ydata, mx, my) ==
    CHOOSE r \in
      {LstsqCoefficients(mean, bc, cc, d, mx, my) :
       mean \in {VMean(ydata)},
       bc \in {VDiv(VSum([i \in DOMAIN xi |-> VMul(xi[i], ydata[i])]),
                    VSum([i \in DOMAIN xi |-> VMul(xi[i], xi[i])]))},
       cc \in {VDiv(VSum([i \in DOMAIN xi |-> VMul(eta[i], ydata[i])]),
                    VSum([i \in DOMAIN xi |-> VMul(eta[i], eta[i])]))},
       d  \in {VDiv(VSum([i \in DOMAIN xi |-> VMul(xe[i], ydata[i])]),
                    VSum([i \in DOMAIN xi |-> VMul(xe[i], xe[i])]))}} : TRUE

LstsqCentred(xdata, ydata, mx, my) ==
    CHOOSE r \in
      {LstsqQuotients(xi, eta, Array([i \in DOMAIN xi |-> VMul(xi[i], eta[i])]),
                      ydata, mx, my) :
       xi  \in {Array([i \in DOMAIN xdata |-> VSub(xdata[i][1], mx)])},
       eta \in {Array([i \in DOMAIN xdata |-> VSub(xdata[i][2], my)])}} : TRUE

lstsq(xdata, ydata) ==
    CHOOSE r \in
      {LstsqCentred(xdata, ydata, mx, my) :
       mx \in {VMean([i \in DOMAIN xdata |-> xdata[i][1]])},
       my \in {VMean([i \in DOMAIN xdata |-> xdata[i][2]])}} : TRUE

\* int(round(n / 2)): Python rounds a half to the even neighbour.
RoundHalf(n) ==
    IF n % 2 = 0 THEN n \div 2
    ELSE IF (n \div 2) % 2 = 0 THEN n \div 2 ELSE n \div 2 + 1

\* The 0-based column of xdata whose coordinates the derivatives are
\* evaluated at: int(round((window_size**2) / 2)).
CentreIndex(window_size) == RoundHalf(window_size * window_size)

\* A variant of TooFew that lets a window one row short of full through.
TooFewByRow(ydata, window_size) == Len(ydata) < window_size * (window_size - 1)

\* len(ydata) < window_size**2, line 106
TooFew(ydata, window_size) == Len(ydata) < window_size * window_size

\* evaluate_point_dev_n(point_data, data): the two partial derivatives of
\* the fit over one window.  The jitted lstsq refuses a NaN or infinite
\* sample with a LinAlgError.
evaluate_point_dev_n(point_data, data, window_size) ==
    IF TooFew(data, window_size)
    THEN [err |-> "", partial_dx |-> NaN, partial_dy |-> NaN]
    ELSE IF \E i \in DOMAIN data : data[i].k \in {"nan", "neginf"}
    THEN [err |-> "LinAlgError", partial_dx |-> NaN, partial_dy |-> NaN]
    ELSE CHOOSE r \in
           {LET px == point_data[CentreIndex(window_size) + 1]
            IN  [err |-> "",
                 partial_dx |-> VAdd(paramsQ4[2], VMul(paramsQ4[4], px[2])),
                 partial_dy |-> VAdd(paramsQ4[3], VMul(paramsQ4[4], px[1]))] :
            paramsQ4 \in {lstsq(point_data, data)}} : TRUE

\* euler_almansi_n at one point.
euler_almansi_n(dudx, dudy, dvdx, dvdy) ==
    LET one == Num(1)
        two == Num(2)
    IN  [exx |-> LogSqrt(VAdd(VAdd(VAdd(one, VMul(two, dudx)), VMul(dudx, dudx)),
                              VMul(dudy, dudy))),
         eyy |-> LogSqrt(VAdd(VAdd(VAdd(one, VMul(two, dvdy)), VMul(dvdx, dvdx)),
                              VMul(dvdy, dvdy))),
         exy |-> VAdd(VMul(dvdx, VAdd(one, dudx)), VMul(dudy, VAdd(one, dvdy)))]

\* One pass of the loop of differentiate_mesh, lines 139-149: the strains
\* at the point, or the error the gradient estimator raised.
PointStrain(mesh, points_list, window_size, point) ==
    CHOOSE r \in
      {[err |-> IF du.err # "" THEN du.err ELSE dv.err,
        e   |-> euler_almansi_n(du.partial_dx, du.partial_dy,
                                dv.partial_dx, dv.partial_dy)] :
       du \in {CHOOSE g \in
                 {evaluate_point_dev_n(point_data, u, window_size) :
                  point_data \in {Array([i \in DOMAIN points_list[point] |->
                                     mesh.points[points_list[point][i]]])},
                  u \in {Array([i \in DOMAIN points_list[point] |->
                            mesh.fields["disp_x"][points_list[point][i]]])}} : TRUE},
       dv \in {CHOOSE g \in
                 {evaluate_point_dev_n(point_data, v, window_size) :
                  point_data \in {Array([i \in DOMAIN points_list[point] |->
                                     mesh.points[points_list[point][i]]])},
                  v \in {Array([i \in DOMAIN points_list[point] |->
                            mesh.fields["disp_y"][points_list[point][i]]])}} : TRUE}} : TRUE

\* differentiate_mesh(mesh, points_list): the three strain arrays of one
\* snapshot, or the error that ended it (a missing displacement field is a
\* KeyError at the first point).
differentiate_mesh(mesh, points_list, window_size) ==
    LET P == 0 .. number_of_points(mesh) - 1
        none == [p \in P |-> NaN]
    IN  IF P # {} /\ ~({"disp_x", "disp_y"} \subseteq DOMAIN mesh.fields)
        THEN [err |-> "KeyError", exx |-> none, eyy |-> none, exy |-> none]
        ELSE CHOOSE r \in
               {IF \E p \in P : g[p].err # ""
                THEN [err |-> "LinAlgError", exx |-> none, eyy |-> none, exy |-> none]
                ELSE [err |-> "", exx |-> [p \in P |-> g[p].e.exx],
                      eyy |-> [p \in P |-> g[p].e.eyy],
                      exy |-> [p \in P |-> g[p].e.exy]] :
                g \in {Array([p \in P |->
                          PointStrain(mesh, points_list, window_size, p)])}} : TRUE

\* mesh['exx'] = exx; mesh['eyy'] = eyy; mesh['exy'] = exy
WriteStrain(mesh, r) ==
    [mesh EXCEPT !.fields =
       SetItem(SetItem(SetItem(mesh.fields, "exx", r.exx), "eyy", r.eyy), "exy", r.exy)]

RECURSIVE DifferentiateFrom(_, _, _, _)
\* The loop over the meshes from the k-th on: each is differentiated and
\* written in turn; an error ends the loop and leaves the earlier writes.
DifferentiateFrom(data_sets, k, points_list, window_size) ==
    IF k > Len(data_sets) THEN [err |-> "", data_sets |-> data_sets]
    ELSE CHOOSE done \in
           {IF r.err # "" THEN [err |-> r.err, data_sets |-> data_sets]
            ELSE CHOOSE rest \in
                   {DifferentiateFrom(written, k + 1, points_list, window_size) :
                    written \in {[data_sets EXCEPT
                                    ![k] = WriteStrain(data_sets[k], r)]}} : TRUE :
            r \in {differentiate_mesh(data_sets[k], points_list, window_size)}} : TRUE

\* A variant of StampFilter that stamps only for a data_range the function
\* knows.
StampFilterKnown(md, data_range, window_size) ==
    IF data_range \in {"all", "last"}
    THEN SetItem(SetItem(SetItem(md, "dic_filter", TRUE), "window_size", window_size),
                 "data_range", data_range)
    ELSE md

\* The metadata stamp of window_differentation, lines 155-157.
StampFilter(md, data_range, window_size) ==
    SetItem(SetItem(SetItem(md, "dic_filter", TRUE), "window_size", window_size),
            "data_range", data_range)

\* A variant of FirstSelected that takes every data_range but 'last' for
\* 'all'.
FirstSelectedElse(data_range, n) == IF data_range = "last" THEN n ELSE 1

\* The first of the n snapshots that lines 159-170 process, those after it
\* being processed too: all of them for 'all', the final one for 'last',
\* none for any other data_range.
FirstSelected(data_range, n) ==
    IF data_range = "all" THEN 1
    ELSE IF data_range = "last" THEN n
    ELSE n + 1

\* window_differentation(spatialdata, data_range, window_size) on the
\* snapshots data_sets and the metadata dict md: what both are afterwards,
\* and the error raised ("" when the call returns).
window_differentation(data_sets, md, data_range, window_size) ==
    CHOOSE r \in
      {CHOOSE q \in
         {[err |-> done.err, data_sets |-> done.data_sets,
           metadata |-> StampFilter(md, data_range, window_size)] :
          done \in
            {DifferentiateFrom(data_sets, FirstSelected(data_range, Len(data_sets)),
                               points_list, window_size)}} : TRUE :
       points_list \in {get_points_neighbours(data_sets[1], window_size)}} : TRUE

\* ------------------------------------------------------------------ grid

\* int(v): truncation toward zero.
Trunc(v) == IF v.n >= 0 THEN v.n \div v.d ELSE -((-v.n) \div v.d)

\* np.linspace(start, stop, num): num evenly spaced samples, the last one
\* stop; a single sample is start.
linspace(start, stop, num) ==
    IF num <= 0 THEN <<>>
    ELSE IF num = 1 THEN <<start>>
    ELSE Array([i \in 1 .. num |->
            VAdd(start, VDiv(VMul(Num(i - 1), VSub(stop, start)), Num(num - 1)))])

VMin(S) == CHOOSE v \in S : \A w \in S : VLe(v, w)
VMax(S) == CHOOSE v \in S : \A w \in S : VLe(w, v)

\* mesh.bounds: <<xmin, xmax, ymin, ymax>> (the mesh is planar).
bounds(mesh) ==
    LET xs == {mesh.points[p][1] : p \in DOMAIN mesh.points}
        ys == {mesh.points[p][2] : p \in DOMAIN mesh.points}
    IN  <<VMin(xs), VMax(xs), VMin(ys), VMax(ys)>>

\* The two axes of the sampling grid, lines 20-23.
GridAxes(mesh, spacing) ==
    CHOOSE r \in
      {[xr |-> linspace(b[1], b[2], Trunc(VDiv(VSub(b[2], b[1]), spacing))),
        yr |-> linspace(b[3], b[4], Trunc(VDiv(VSub(b[4], b[3]), spacing)))] :
       b \in {bounds(mesh)}} : TRUE

\* The value the probe interpolates inside a rectangular cell from its four
\* corner values, at the local coordinates u, v in [0, 1].
Interpolate(f00, f10, f01, f11, u, v) ==
    IF f00 = f10 /\ f00 = f01 /\ f00 = f11 THEN f00
    ELSE LET one == Num(1)
         IN  VAdd(VAdd(VMul(VMul(VSub(one, u), VSub(one, v)), f00),
                       VMul(VMul(u, VSub(one, v)), f10)),
                  VAdd(VMul(VMul(VSub(one, u), v), f01),
                       VMul(VMul(u, v), f11)))

\* <<xmin, xmax, ymin, ymax>> of the cell c of mesh.
CellBox(mesh, c) ==
    <<VMin({mesh.points[p][1] : p \in c}), VMax({mesh.points[p][1] : p \in c}),
      VMin({mesh.points[p][2] : p \in c}), VMax({mesh.points[p][2] : p \in c})>>

\* The point g lies in the box b, its boundary included.
Inside(g, b) ==
    /\ VLe(b[1], g[1]) /\ VLe(g[1], b[2])
    /\ VLe(b[3], g[2]) /\ VLe(g[2], b[4])

\* The point of cell c at the coordinates <<x, y>>.
Corner(mesh, c, x, y) == CHOOSE p \in c : mesh.points[p] = <<x, y>>

\* The field name of mesh probed at g, a point of cell c whose box is b.
Probe(mesh, name, c, b, g) ==
    Interpolate(mesh.fields[name][Corner(mesh, c, b[1], b[3])],
                mesh.fields[name][Corner(mesh, c, b[2], b[3])],
                mesh.fields[name][Corner(mesh, c, b[1], b[4])],
                mesh.fields[name][Corner(mesh, c, b[2], b[4])],
                VDiv(VSub(g[1], b[1]), VSub(b[2], b[1])),
                VDiv(VSub(g[2], b[3]), VSub(b[4], b[3])))

\* grid.sample(mesh): every point field of mesh probed at the grid's points,
\* and vtkValidPointMask, 1 where the grid point lies in a cell of mesh and
\* 0 elsewhere; a field's sample at a point outside the mesh is 0.
sample(grid, mesh) ==
    CHOOSE r \in
      {CHOOSE q \in
         {[grid EXCEPT !.fields =
             [name \in DOMAIN mesh.fields \cup {"vtkValidPointMask"} |->
                [g \in DOMAIN grid.points |->
                   IF name = "vtkValidPointMask"
                   THEN (IF hit[g] = {} THEN Num(0) ELSE Num(1))
                   ELSE IF hit[g] = {} THEN Num(0)
                   ELSE Probe(mesh, name, CHOOSE c \in hit[g] : TRUE,
                              boxes[CHOOSE c \in hit[g] : TRUE], grid.points[g])]]] :
          hit \in {Array([g \in DOMAIN grid.points |->
                     {c \in mesh.cells : Inside(grid.points[g], boxes[c])}])}} : TRUE :
       boxes \in {Array([c \in mesh.cells |-> CellBox(mesh, c)])}} : TRUE

\* A variant of Unmasked that exempts no field.
UnmaskedNone == {}

\* The fields the masking loop leaves alone, line 38.
Unmasked == {"ObjectId", "vtkGhostType", "vtkValidPointMask"}

\* Lines 37-39: every other field is set to NaN where the mask is 0.
MaskInvalid(result) ==
    [result EXCEPT !.fields =
       [field \in DOMAIN result.fields |->
          IF field \in Unmasked THEN result.fields[field]
          ELSE [q \in DOMAIN result.points |->
                  IF result.fields["vtkValidPointMask"][q] = Num(0)
                  THEN NaN ELSE result.fields[field][q]]]]

\* A variant of StampInterpolated that records the default spacing, 0.2.
StampInterpolatedDefault(md, spacing) ==
    SetItem(SetItem(SetItem(md, "interpolated", TRUE), "interpolation_type", "grid"),
            "grid_spacing", Rat(1, 5))

\* The tags interpolate_spatialdata_grid puts on the metadata, lines 30-32.
StampInterpolated(md, spacing) ==
    SetItem(SetItem(SetItem(md, "interpolated", TRUE), "interpolation_type", "grid"),
            "grid_spacing", spacing)

\* SpatialData(data_sets, index, time, load, metadata): the container keeps
\* what it is given; metadata is a reference into the heap of dicts.
SpatialData(data_sets, index, time, load, metadata) ==
    [data_sets |-> data_sets, index |-> index, time |-> time, load |-> load,
     metadata |-> metadata]

\* The reference the new container's metadata is, line 29: the input's own
\* dict, not a copy of it.
MetadataOf(spatialdata, h) == spatialdata.metadata

\* The heap once line 29 has run (a copy would add a dict to it).
HeapAfterBinding(spatialdata, h) == h

\* interpolate_spatialdata_grid(spatialdata, spacing) on the heap h of
\* metadata dicts: the heap afterwards and the container returned.
interpolate_spatialdata_grid(spatialdata, h, spacing) ==
    LET metadata == MetadataOf(spatialdata, h)
        h1   == HeapAfterBinding(spatialdata, h)
        h2   == [h1 EXCEPT ![metadata] = StampInterpolated(h1[metadata], spacing)]
    IN  CHOOSE r \in
          {[heap |-> h2,
            result |-> SpatialData(
                [i \in DOMAIN spatialdata.data_sets |->
                   CHOOSE m \in {MaskInvalid(result) :
                                 result \in {sample(grid, spatialdata.data_sets[i])}} : TRUE],
                spatialdata.index, spatialdata.time, spatialdata.load, metadata)] :
           grid \in {CHOOSE g \in {StructuredGrid(axes.xr, axes.yr) :
                        axes \in {GridAxes(spatialdata.data_sets[1], spacing)}} : TRUE}} : TRUE

\* ------------------------------------------------------------------ state

VARIABLES
    src,     \* the container imported from the simulation
    out,     \* <<the container interpolate_spatialdata_grid returned>>, or <<>>
    heap,    \* the metadata dicts, by reference
    call,    \* the last call: its operation, arguments and error
    pre,     \* src, out and heap as they were when the last call began
    ncalls   \* calls made so far

vars == <<src, out, heap, call, pre, ncalls>>

NoCall ==
    [op |-> "none", target |-> "", data_range |-> "", window_size |-> 0,
     spacing |-> Num(0), err |-> ""]

\* The side lengths of the source mesh.
GridSizes == {MaxGrid}

\* The window sizes: odd and at least 3.
WindowSizes == {3, 5}

\* The data_range arguments: the two the function knows and one it does not.
DataRanges == {"all", "last", "first"}

Spacings == {Num(sp) : sp \in 1 .. MaxSpacing}

\* The container of an N x N mesh over nsnap time steps; snapshot drop (0
\* for none) lacks a displacement field, disp_x when drop is odd.
SourceData(N, notch, nsnap, drop) ==
    SpatialData([s \in 1 .. nsnap |->
                   SourceMesh(N, notch, s,
                              IF s # drop THEN ""
                              ELSE IF drop % 2 = 1 THEN "disp_x" ELSE "disp_y")],
                [s \in 1 .. nsnap |-> s - 1],
                [s \in 1 .. nsnap |-> 10 * (s - 1)],
                [s \in 1 .. nsnap |-> 100 * s],
                1)

\* A container as the import leaves it: a full mesh with every field, a
\* full mesh with one snapshot short of a displacement field, or a notched
\* mesh with every field.
Init ==
    \E N \in GridSizes, notch \in BOOLEAN, nsnap \in 1 .. MaxSnap :
      \E drop \in 0 .. (IF notch THEN 0 ELSE nsnap) :
        /\ src = SourceData(N, notch, nsnap, drop)
        /\ out = <<>>
        /\ heap = <<[data_source |-> "FE"]>>
        /\ call = NoCall
        /\ pre = [src |-> src, out |-> out, heap |-> heap]
        /\ ncalls = 0

Snapshot == [src |-> src, out |-> out, heap |-> heap]

\* interpolate_spatialdata_grid(src, spacing); the grid has at least one
\* point along each axis.
InterpolateCall(spacing) ==
    /\ ncalls < MaxCalls
    /\ \E axes \in {GridAxes(src.data_sets[1], spacing)} :
         Len(axes.xr) >= 1 /\ Len(axes.yr) >= 1
    /\ \E r \in {interpolate_spatialdata_grid(src, heap, spacing)} :
         /\ heap' = r.heap
         /\ out' = <<r.result>>
    /\ src' = src
    /\ call' = [NoCall EXCEPT !.op = "interpolate", !.target = "src",
                              !.spacing = spacing]
    /\ pre' = Snapshot
    /\ ncalls' = ncalls + 1

\* window_differentation(src, data_range, window_size)
DifferentiateSrc(data_range, window_size) ==
    /\ ncalls < MaxCalls
    /\ \E r \in {window_differentation(src.data_sets, heap[src.metadata],
                                         data_range, window_size)} :
           /\ src' = [src EXCEPT !.data_sets = r.data_sets]
           /\ heap' = [heap EXCEPT ![src.metadata] = r.metadata]
           /\ call' = [NoCall EXCEPT !.op = "differentiate", !.target = "src",
                                     !.data_range = data_range,
                                     !.window_size = window_size, !.err = r.err]
    /\ out' = out
    /\ pre' = Snapshot
    /\ ncalls' = ncalls + 1

\* window_differentation(out, data_range, window_size), on the container
\* the interpolation returned
DifferentiateOut(data_range, window_size) ==
    /\ ncalls < MaxCalls
    /\ out # <<>>
    /\ \E r \in {window_differentation(out[1].data_sets, heap[out[1].metadata],
                                         data_range, window_size)} :
           /\ out' = <<[out[1] EXCEPT !.data_sets = r.data_sets]>>
           /\ heap' = [heap EXCEPT ![out[1].metadata] = r.metadata]
           /\ call' = [NoCall EXCEPT !.op = "differentiate", !.target = "out",
                                     !.data_range = data_range,
                                     !.window_size = window_size, !.err = r.err]
    /\ src' = src
    /\ pre' = Snapshot
    /\ ncalls' = ncalls + 1

\* Differentiation of the imported container, call after call.
NextDiff ==
    \E data_range \in DataRanges, window_size \in WindowSizes :
      DifferentiateSrc(data_range, window_size)

SpecDiff == Init /\ [][NextDiff]_vars

\* Interpolation of the imported container onto a grid, and differentiation
\* of what it returned.
NextInterp ==
    \/ \E spacing \in Spacings : InterpolateCall(spacing)
    \/ \E data_range \in DataRanges, window_size \in WindowSizes :
         DifferentiateOut(data_range, window_size)

SpecInterp == Init /\ [][NextInterp]_vars

\* ------------------------------------------------------------------ properties

\* The three strain fields and the three keys window_differentation stamps.
Strain == {"exx", "eyy", "exy"}
FilterKeys == {"dic_filter", "window_size", "data_range"}
GridKeys == {"interpolated", "interpolation_type", "grid_spacing"}

\* The container the last call was made on, as it is now and as it was when
\* the call began.
TargetNow == IF call.target = "out" THEN out[1] ELSE src
TargetBefore == IF call.target = "out" THEN pre.out[1] ELSE pre.src

\* The snapshots, out of n, that data_range selects.
Selected(data_range, n) ==
    CASE data_range = "all"  -> 1 .. n
      [] data_range = "last" -> {n}
      [] OTHER               -> {}

\* The points of R and those one connectivity hop from a point of R: two
\* points are one hop apart when a cell holds both.
Hop(mesh, R) == R \cup UNION {c \in mesh.cells : c \cap R # {}}

RECURSIVE Reach(_, _, _)
\* The points at most hops connectivity hops from P, P among them.
Reach(mesh, P, hops) ==
    IF hops <= 0 THEN {P} ELSE Hop(mesh, Reach(mesh, P, hops - 1))

\* P is an interior point for hops hops: every point fewer than hops hops
\* from it has 8 immediate neighbours, so P is at least hops grid steps from
\* every edge of the mesh.
Interior(mesh, P, hops) ==
    \A q \in Reach(mesh, P, hops - 1) : Cardinality(Hop(mesh, {q}) \ {q}) = 8

\* C1: interpolate_spatialdata_grid leaves its input container as it was,
\* metadata included, and gives the returned container a metadata dict of
\* its own, so that window_differentation on the returned container never
\* changes the input's metadata.
C1_InputUntouched ==
    /\ call.op = "interpolate" =>
          /\ src = pre.src
          /\ heap[src.metadata] = pre.heap[src.metadata]
          /\ out[1].metadata # src.metadata
    /\ (call.op = "differentiate" /\ call.target = "out") =>
          heap[src.metadata] = pre.heap[src.metadata]

\* C2: a window_differentation call in which a selected snapshot lacks
\* disp_x or disp_y fails, and leaves every snapshot and the metadata of
\* the container as they were.
C2_FailureLeavesNoTrace ==
    (/\ call.op = "differentiate"
     /\ \E k \in Selected(call.data_range, Len(TargetBefore.data_sets)) :
          ~({"disp_x", "disp_y"} \subseteq DOMAIN TargetBefore.data_sets[k].fields))
    => /\ call.err # ""
       /\ TargetNow.data_sets = TargetBefore.data_sets
       /\ heap[TargetNow.metadata] = pre.heap[TargetNow.metadata]

\* C3: window_differentation changes nothing but the fields exx, eyy, exy
\* of the snapshots data_range selects (all for 'all', the final one for
\* 'last', none otherwise), and a call that returns has written the three
\* fields on every selected snapshot.
C3_WritesSelectedOnly ==
    call.op = "differentiate" =>
      LET before == TargetBefore.data_sets
          after  == TargetNow.data_sets
          sel    == Selected(call.data_range, Len(before))
      IN  /\ Len(after) = Len(before)
          /\ \A k \in 1 .. Len(before) :
                /\ after[k].points = before[k].points
                /\ after[k].cells = before[k].cells
                /\ DOMAIN after[k].fields \subseteq DOMAIN before[k].fields \cup Strain
                /\ \A f \in DOMAIN before[k].fields \ Strain :
                      /\ f \in DOMAIN after[k].fields
                      /\ after[k].fields[f] = before[k].fields[f]
                /\ k \notin sel => after[k] = before[k]
                /\ (k \in sel /\ call.err = "") =>
                      /\ Strain \subseteq DOMAIN after[k].fields
                      /\ \A f \in Strain :
                            DOMAIN after[k].fields[f] = PointIds(after[k])

\* 'last' on a two-snapshot container: the final snapshot has the strain
\* fields, the first has none.
C3_Witness ==
    /\ call.op = "differentiate" /\ call.data_range = "last" /\ call.err = ""
    /\ Len(src.data_sets) = 2
    /\ Strain \subseteq DOMAIN src.data_sets[2].fields
    /\ Strain \cap DOMAIN src.data_sets[1].fields = {}
    /\ src.data_sets[1] = pre.src.data_sets[1]

\* C4: after any window_differentation call, an invalid data_range and a
\* failing call included, the container's metadata is what it was with
\* dic_filter = true, window_size and data_range overwritten and every
\* other key unchanged; a second call with the same parameters leaves it
\* as the first did.
C4_StampUnconditionalIdempotent ==
    call.op = "differentiate" =>
      LET old == pre.heap[TargetNow.metadata]
          new == heap[TargetNow.metadata]
      IN  /\ DOMAIN new = DOMAIN old \cup FilterKeys
          /\ new["dic_filter"] = TRUE
          /\ new["window_size"] = call.window_size
          /\ new["data_range"] = call.data_range
          /\ \A key \in DOMAIN old \ FilterKeys : new[key] = old[key]
          /\ (/\ FilterKeys \subseteq DOMAIN old
              /\ old["dic_filter"] = TRUE
              /\ old["window_size"] = call.window_size
              /\ old["data_range"] = call.data_range) => new = old
          /\ StampFilter(new, call.data_range, call.window_size) = new

\* The second of two calls with the same window size and the same invalid
\* data_range.
C4_Witness ==
    /\ call.op = "differentiate" /\ call.data_range = "first"
    /\ FilterKeys \subseteq DOMAIN pre.heap[src.metadata]
    /\ pre.heap[src.metadata]["data_range"] = "first"
    /\ pre.heap[src.metadata]["window_size"] = call.window_size
    /\ heap[src.metadata] = pre.heap[src.metadata]
    /\ src = pre.src

\* C5: at every point whose window has fewer than window_size^2 points the
\* gradient estimator returns not-a-number for both derivatives of both
\* displacement components and raises nothing, and the exx, eyy and exy
\* written there are not-a-number; on the 5 x 5 regular mesh with
\* window_size = 5 these are all the points but the centre one.
C5_ShortWindowIsNaN ==
    call.op = "differentiate" =>
      \A points_list \in {get_points_neighbours(TargetBefore.data_sets[1],
                                                call.window_size)} :
        LET before == TargetBefore.data_sets
            after  == TargetNow.data_sets
            full   == call.window_size * call.window_size
            short  == {p \in DOMAIN points_list : Len(points_list[p]) < full}
        IN  /\ \A k \in Selected(call.data_range, Len(before)), p \in short :
                  /\ \A f \in {"disp_x", "disp_y"} \cap DOMAIN before[k].fields :
                        evaluate_point_dev_n(
                            [i \in DOMAIN points_list[p] |->
                               before[k].points[points_list[p][i]]],
                            [i \in DOMAIN points_list[p] |->
                               before[k].fields[f][points_list[p][i]]],
                            call.window_size)
                          = [err |-> "", partial_dx |-> NaN, partial_dy |-> NaN]
                  /\ (call.err = "" \/ after[k] # before[k]) =>
                        \A f \in Strain : IsNaN(after[k].fields[f][p])
            /\ (/\ call.window_size = 5
                /\ number_of_points(before[1]) = 25
                /\ Cardinality(before[1].cells) = 16) =>
                  Cardinality(DOMAIN points_list \ short) = 1

\* window_size = 5 on the full 5 x 5 mesh: the strains are not-a-number at
\* a corner and a number at the centre.
C5_Witness ==
    /\ call.op = "differentiate" /\ call.window_size = 5 /\ call.err = ""
    /\ call.data_range = "all"
    /\ number_of_points(src.data_sets[1]) = 25
    /\ IsNaN(src.data_sets[1].fields["exx"][0])
    /\ IsNaN(src.data_sets[1].fields["exy"][11])
    /\ ~IsNaN(src.data_sets[1].fields["exx"][12])

\* C6: for every point P, get_points_neighbours gives a list that starts
\* with P, holds no index twice, and holds exactly the points at most
\* (window_size - 1) / 2 connectivity hops from P; an interior point of a
\* quad mesh gets exactly window_size^2 entries.
C6_NeighbourhoodIsReach ==
    call.op = "differentiate" =>
      \A mesh \in {TargetBefore.data_sets[1]} :
        \A points_list \in {get_points_neighbours(mesh, call.window_size)} :
          /\ DOMAIN points_list = PointIds(mesh)
          /\ \A P \in PointIds(mesh) :
                /\ points_list[P][1] = P
                /\ Cardinality(ListToSet(points_list[P])) = Len(points_list[P])
                /\ ListToSet(points_list[P])
                     = Reach(mesh, P, (call.window_size - 1) \div 2)
                /\ Interior(mesh, P, (call.window_size - 1) \div 2) =>
                      Len(points_list[P]) = call.window_size * call.window_size

\* window_size = 5 on a mesh with an interior point, whose window has 25
\* entries, and a corner point, whose window has 9.
C6_Witness ==
    /\ call.op = "differentiate" /\ call.window_size = 5
    /\ \E P \in PointIds(pre.src.data_sets[1]) :
          /\ Interior(pre.src.data_sets[1], P, 2)
          /\ Len(get_points_neighbours(pre.src.data_sets[1], 5)[P]) = 25
    /\ Len(get_points_neighbours(pre.src.data_sets[1], 5)[0]) = 9

\* C7: the container interpolate_spatialdata_grid returns has one resampled
\* snapshot per input snapshot, in the input's order, the input's index,
\* time and load, each as long as the snapshots are many, and metadata with
\* interpolated = true, interpolation_type = 'grid', grid_spacing = the
\* spacing argument and every other key of the input's metadata kept.
C7_InterpolatedContainer ==
    call.op = "interpolate" =>
      LET input == pre.src
          res   == out[1]
          old   == pre.heap[input.metadata]
          new   == heap[res.metadata]
      IN  /\ Len(res.data_sets) = Len(input.data_sets)
          /\ res.index = input.index /\ res.time = input.time
          /\ res.load = input.load
          /\ Len(res.index) = Len(res.data_sets)
          /\ Len(res.time) = Len(res.data_sets)
          /\ Len(res.load) = Len(res.data_sets)
          /\ \A k \in 1 .. Len(input.data_sets) :
                /\ DOMAIN res.data_sets[k].fields
                     = DOMAIN input.data_sets[k].fields \cup {"vtkValidPointMask"}
                /\ res.data_sets[k].points = res.data_sets[1].points
                /\ \A g \in PointIds(res.data_sets[k]),
                      p \in PointIds(input.data_sets[k]) :
                      res.data_sets[k].points[g] = input.data_sets[k].points[p] =>
                        \A f \in DOMAIN input.data_sets[k].fields :
                          res.data_sets[k].fields[f][g] = input.data_sets[k].fields[f][p]
          /\ DOMAIN new = DOMAIN old \cup GridKeys
          /\ new["interpolated"] = TRUE
          /\ new["interpolation_type"] = "grid"
          /\ new["grid_spacing"] = call.spacing
          /\ \A key \in DOMAIN old \ GridKeys : new[key] = old[key]

\* A two-snapshot container interpolated a second time, at another spacing
\* than the first.
C7_Witness ==
    /\ call.op = "interpolate" /\ ncalls = 2
    /\ Len(out[1].data_sets) = 2
    /\ "grid_spacing" \in DOMAIN pre.heap[src.metadata]
    /\ pre.heap[src.metadata]["grid_spacing"] # call.spacing
    /\ heap[out[1].metadata]["data_source"] = "FE"

\* C8: in every resampled snapshot, every field but ObjectId, vtkGhostType
\* and vtkValidPointMask is not-a-number at the grid points whose validity
\* mask is 0 and the sampled value at the others, and those three fields
\* are the sampled values at all grid points.
C8_InvalidPointsMasked ==
    call.op = "interpolate" =>
      \A k \in 1 .. Len(pre.src.data_sets) :
        \A raw \in {sample([out[1].data_sets[k] EXCEPT !.fields = <<>>],
                           pre.src.data_sets[k])} :
          /\ DOMAIN out[1].data_sets[k].fields = DOMAIN raw.fields
          /\ \A f \in DOMAIN raw.fields, g \in PointIds(raw) :
                IF f \in {"ObjectId", "vtkGhostType", "vtkValidPointMask"}
                THEN out[1].data_sets[k].fields[f][g] = raw.fields[f][g]
                ELSE IF raw.fields["vtkValidPointMask"][g] = Num(0)
                THEN IsNaN(out[1].data_sets[k].fields[f][g])
                ELSE out[1].data_sets[k].fields[f][g] = raw.fields[f][g]

\* A grid with a point outside the mesh, where disp_x is not-a-number and
\* ObjectId is the sampled 0, and a point inside, where disp_x is a number.
C8_Witness ==
    /\ call.op = "interpolate"
    /\ \E g \in PointIds(out[1].data_sets[1]) :
          /\ out[1].data_sets[1].fields["vtkValidPointMask"][g] = Num(0)
          /\ IsNaN(out[1].data_sets[1].fields["disp_x"][g])
          /\ out[1].data_sets[1].fields["ObjectId"][g] = Num(0)
    /\ \E g \in PointIds(out[1].data_sets[1]) :
          /\ out[1].data_sets[1].fields["vtkValidPointMask"][g] = Num(1)
          /\ IsNum(out[1].data_sets[1].fields["disp_x"][g])

\* C9: in a call that differentiates a snapshot, for every point P whose
\* window has at least window_size^2 points, the window entry whose coordinates the fitted derivatives are evaluated
\* at, the one at index round(window_size^2 / 2), is P itself.
C9_EvaluatedAtCentre ==
    (call.op = "differentiate" /\ call.err = ""
       /\ call.data_range \in {"all", "last"}) =>
      \A mesh \in {TargetBefore.data_sets[1]} :
        \A points_list \in {get_points_neighbours(mesh, call.window_size)} :
          \A P \in PointIds(mesh) :
            Len(points_list[P]) >= call.window_size * call.window_size =>
              /\ points_list[P][CentreIndex(call.window_size) + 1] = P
              /\ mesh.points[points_list[P][CentreIndex(call.window_size) + 1]]
                   = mesh.points[P]

\* C10: along each axis whose extent is larger than the spacing, the
\* sampling grid has floor(extent / spacing) points, the first at the
\* minimum and the last at the maximum of the first snapshot's bounds, and
\* neighbouring points are exactly the spacing apart.
C10_GridSpacing ==
    call.op = "interpolate" =>
      \A b \in {bounds(pre.src.data_sets[1])} :
        \A axis \in {1, 2} :
          LET lo == b[2 * axis - 1]
              hi == b[2 * axis]
              at == {out[1].data_sets[1].points[g][axis] :
                       g \in PointIds(out[1].data_sets[1])}
          IN  VLt(call.spacing, VSub(hi, lo)) =>
                /\ Cardinality(at) = Trunc(VDiv(VSub(hi, lo), call.spacing))
                /\ lo \in at /\ hi \in at
                /\ \A v \in at : v # hi => VAdd(v, call.spacing) \in at

====
